---- MODULE Spec2Model ----
(***************************************************************************)
(* Model of pkg/node-servant/config/control-plane.go: the runner that      *)
(* patches the kube-apiserver and kube-controller-manager static pod       *)
(* manifests.  Strings are TLA+ strings, and the Go string functions the   *)
(* code calls (strings.Contains, strings.Index, slicing, concatenation)    *)
(* are computed character by character.                                    *)
(***************************************************************************)
EXTENDS Integers, Sequences, FiniteSets, TLC

(***************************************************************************)
(* Bounds of the model.                                                    *)
(***************************************************************************)
\* most containers in one pod manifest
MaxContainers == 2
\* most command arguments in one pod manifest, all containers together
MaxArgs == 2

(***************************************************************************)
(* Go's string functions.                                                  *)
(***************************************************************************)
\* strings.Contains(s, substr)
Contains(s, substr) ==
    \E k \in 1..(Len(s) - Len(substr) + 1) : SubSeq(s, k, k + Len(substr) - 1) = substr

\* strings.Index(s, substr): 0-based index of the first occurrence, -1 if none
Index(s, substr) ==
    IF Contains(s, substr)
    THEN (CHOOSE k \in 1..(Len(s) - Len(substr) + 1) :
            /\ SubSeq(s, k, k + Len(substr) - 1) = substr
            /\ \A m \in 1..(k - 1) : SubSeq(s, m, m + Len(substr) - 1) # substr) - 1
    ELSE -1

\* s[:n]
SliceTo(s, n) == SubSeq(s, 1, n)

\* s[n:]
SliceFrom(s, n) == SubSeq(s, n + 1, Len(s))

\* filepath.Join(dir, name) for a clean directory and a plain file name
Join(dir, name) == dir \o "/" \o name

(***************************************************************************)
(* Literals of the code.                                                   *)
(***************************************************************************)
KASFileName == "kube-apiserver.yaml"
KCMFileName == "kube-controller-manager.yaml"
PodMode == "pod"
KubeletAddrTypes == "kubelet-preferred-address-types="
ControllersFlag == "--controllers="
NodeLifeCycleOff == "-nodelifecycle,"
DNSClusterFirstWithHostNet == "ClusterFirstWithHostNet"
NoError == "<nil>"

UnsupportedModeError(mode) ==
    mode \o " mode is not supported, only static pod mode is implemented"
NotExistError(path) == path \o " file is not exist"
NotStaticPodError(path) == "manifest file(" \o path \o ") is not a static pod"

(***************************************************************************)
(* Inputs: the options and the manifests on disk.                          *)
(***************************************************************************)
PodManifestsPath == "/etc/kubernetes/manifests"
RunModes == {"pod", "binary"}
KASPath == Join(PodManifestsPath, KASFileName)
KCMPath == Join(PodManifestsPath, KCMFileName)
Paths == {KASPath, KCMPath}

KasArgPool ==
    { "--kubelet-preferred-address-types=InternalIP,Hostname",
      "--kubelet-preferred-address-types=Hostname",
      "--secure-port=6443" }
KcmArgPool ==
    { "--controllers=*,bootstrapsigner,tokencleaner",
      "--controllers=-nodelifecycle,*,bootstrapsigner,tokencleaner",
      "--controllers=*,-nodelifecycle,tokencleaner",
      "--leader-elect=true" }
DNSPolicies == {"Default", DNSClusterFirstWithHostNet}

\* commands of exactly n arguments over a pool
RECURSIVE CommandsOfLen(_, _)
CommandsOfLen(pool, n) ==
    IF n = 0 THEN {<<>>}
    ELSE {<<a>> \o c : a \in pool, c \in CommandsOfLen(pool, n - 1)}

\* container lists of exactly c containers holding at most t arguments together
RECURSIVE ContainerLists(_, _, _)
ContainerLists(pool, c, t) ==
    IF c = 0 THEN {<<>>}
    ELSE UNION { {<<[Command |-> cmd]>> \o rest :
                    cmd \in CommandsOfLen(pool, k),
                    rest \in ContainerLists(pool, c - 1, t - k)} : k \in 0..t }

AllContainerLists(pool) ==
    UNION { ContainerLists(pool, c, MaxArgs) : c \in 0..MaxContainers }

EmptySpec == [DNSPolicy |-> "", Containers |-> <<>>]
Pod(dns, containers) ==
    [state |-> "yaml", kind |-> "Pod", Spec |-> [DNSPolicy |-> dns, Containers |-> containers]]
AbsentFile == [state |-> "absent", kind |-> "", Spec |-> EmptySpec]
UnreadableFile == [state |-> "unreadable", kind |-> "", Spec |-> EmptySpec]
ConfigMapFile == [state |-> "yaml", kind |-> "ConfigMap", Spec |-> EmptySpec]
NonPodFiles == {AbsentFile, UnreadableFile, ConfigMapFile}
NoObject == [state |-> "none", kind |-> "", Spec |-> EmptySpec]

KasFiles ==
    NonPodFiles \cup {Pod(d, cs) : d \in DNSPolicies, cs \in AllContainerLists(KasArgPool)}
KcmFiles ==
    NonPodFiles \cup {Pod("ClusterFirst", cs) : cs \in AllContainerLists(KcmArgPool)}

KasSample ==
    NonPodFiles \cup
    { Pod("Default", <<[Command |-> <<"--secure-port=6443",
                                      "--kubelet-preferred-address-types=InternalIP,Hostname">>]>>),
      Pod(DNSClusterFirstWithHostNet, <<[Command |-> <<"--secure-port=6443">>]>>) }
KcmSample ==
    NonPodFiles \cup
    { Pod("ClusterFirst", <<[Command |-> <<"--leader-elect=true",
                                           "--controllers=*,bootstrapsigner,tokencleaner">>]>>),
      Pod("ClusterFirst", <<[Command |-> <<"--controllers=-nodelifecycle,*,bootstrapsigner,tokencleaner">>]>>) }

\* the manifest directory holding the two files
Disk(kas, kcm) == [p \in Paths |-> IF p = KASPath THEN kas ELSE kcm]
SampleDisks == {Disk(kas, kcm) : kas \in KasSample, kcm \in KcmSample}
\* every kube-apiserver manifest beside a sample kube-controller-manager manifest,
\* and every kube-controller-manager manifest beside a sample kube-apiserver manifest
Disks ==
    {Disk(kas, kcm) : kas \in KasFiles, kcm \in KcmSample}
        \cup {Disk(kas, kcm) : kas \in KasSample, kcm \in KcmFiles}

(***************************************************************************)
(* The manifest accessor (pkg/util/file), at its boundary.                 *)
(***************************************************************************)
FileExists(disk, path) == disk[path].state # "absent"
ReadFails(disk, path) == disk[path].state # "yaml"
ReadError(path) == "ManifestLoadError: " \o path
WriteError(path) == "ManifestWriteError: " \o path
ReadObjectFromYamlFile(disk, path) == disk[path]
\* what a call of WriteObjectToYamlFile can leave on disk: the object, or,
\* when it fails, the old content or a file that no longer parses
WrittenFile(obj) == [state |-> "yaml", kind |-> obj.kind, Spec |-> obj.Spec]
FailedWriteOutcomes(old) == {old, UnreadableFile}

\* IsPod, with the type assertion's result ignored
IsPod_Unchecked(obj) == obj.kind = obj.kind

\* kasObj.(*v1.Pod)
IsPod(obj) == obj.kind = "Pod"

(***************************************************************************)
(* The transformations of Do, as the code computes them.                   *)
(***************************************************************************)
\* index of the first argument of cmd that contains substr, 0 if none
FirstMatch(cmd, substr) ==
    IF \E j \in 1..Len(cmd) : Contains(cmd[j], substr)
    THEN CHOOSE j \in 1..Len(cmd) :
            /\ Contains(cmd[j], substr)
            /\ \A m \in 1..(j - 1) : ~Contains(cmd[m], substr)
    ELSE 0

\* RemoveAt, keeping Command[:j] alone
RemoveAt_Truncate(cmd, j) == SubSeq(cmd, 1, j - 1)

\* append(Command[:j], Command[j+1:]...) for the 1-based index j
RemoveAt(cmd, j) == SubSeq(cmd, 1, j - 1) \o SubSeq(cmd, j + 1, Len(cmd))

\* RemoveAddrTypes, without kasPodUpdated = true
RemoveAddrTypes_NoFlag(cmd) ==
    LET j == FirstMatch(cmd, KubeletAddrTypes)
    IN  IF j = 0 THEN [Command |-> cmd, updated |-> FALSE]
        ELSE [Command |-> RemoveAt(cmd, j), updated |-> FALSE]

\* the inner loop over one kube-apiserver container's Command
RemoveAddrTypes(cmd) ==
    LET j == FirstMatch(cmd, KubeletAddrTypes)
    IN  IF j = 0 THEN [Command |-> cmd, updated |-> FALSE]
        ELSE [Command |-> RemoveAt(cmd, j), updated |-> TRUE]

\* SetDNSPolicy, without the comparison
SetDNSPolicy_Unconditional(policy) ==
    [DNSPolicy |-> DNSClusterFirstWithHostNet, updated |-> TRUE]

\* the dnsPolicy step: the policy it leaves and whether it changed the pod
SetDNSPolicy(policy) ==
    IF policy # DNSClusterFirstWithHostNet
    THEN [DNSPolicy |-> DNSClusterFirstWithHostNet, updated |-> TRUE]
    ELSE [DNSPolicy |-> policy, updated |-> FALSE]

\* AfterWriteKas, without the return on error
AfterWriteKas_GoesOn(failed) == "writeKcm"

\* if err := WriteObjectToYamlFile(kasPod, ...); err != nil { return err }
AfterWriteKas(failed) == IF failed THEN "done" ELSE "writeKcm"

\* InsertNodeLifeCycle, with the insert point on the = instead of after it
InsertNodeLifeCycle_BeforeEq(arg) ==
    LET insertPoint == Index(arg, "=")
    IN  SliceTo(arg, insertPoint) \o NodeLifeCycleOff \o SliceFrom(arg, insertPoint)

\* insert -nodelifecycle, after the first =
InsertNodeLifeCycle(arg) ==
    LET insertPoint == Index(arg, "=") + 1
    IN  SliceTo(arg, insertPoint) \o NodeLifeCycleOff \o SliceFrom(arg, insertPoint)

\* NeedsNodeLifeCycle, without the test for -nodelifecycle,
NeedsNodeLifeCycle_Always(arg) == Contains(arg, ControllersFlag)

\* does the inner loop act on this argument
NeedsNodeLifeCycle(arg) ==
    Contains(arg, ControllersFlag) /\ ~Contains(arg, NodeLifeCycleOff)

\* index of the argument the inner loop over one kube-controller-manager
\* container's Command rewrites before it breaks, 0 if it rewrites none
FirstToPatch(cmd) ==
    IF \E j \in 1..Len(cmd) : NeedsNodeLifeCycle(cmd[j])
    THEN CHOOSE j \in 1..Len(cmd) :
            /\ NeedsNodeLifeCycle(cmd[j])
            /\ \A m \in 1..(j - 1) : ~NeedsNodeLifeCycle(cmd[m])
    ELSE 0

DisableNodeLifeCycle(cmd) ==
    LET j == FirstToPatch(cmd)
    IN  IF j = 0 THEN [Command |-> cmd, updated |-> FALSE]
        ELSE [Command |-> [cmd EXCEPT ![j] = InsertNodeLifeCycle(cmd[j])],
              updated |-> TRUE]

\* the outer loop over the kube-apiserver containers
RemoveAddrTypesInAll(containers) ==
    [Containers |->
        [i \in DOMAIN containers |->
            [Command |-> RemoveAddrTypes(containers[i].Command).Command]],
     updated |-> \E i \in DOMAIN containers : RemoveAddrTypes(containers[i].Command).updated]

\* the outer loop over the kube-controller-manager containers
DisableNodeLifeCycleInAll(containers) ==
    [Containers |->
        [i \in DOMAIN containers |->
            [Command |-> DisableNodeLifeCycle(containers[i].Command).Command]],
     updated |-> \E i \in DOMAIN containers : DisableNodeLifeCycle(containers[i].Command).updated]

(***************************************************************************)
(* State.                                                                  *)
(***************************************************************************)
VARIABLES
    runMode,        \* o.RunMode
    disk,           \* the manifest directory: path -> file
    pc,             \* where the program is
    runner,         \* the staticPodRunner NewControlPlaneRunner returned
    buildErr,       \* the error NewControlPlaneRunner returned
    kasPod, kcmPod, \* the objects Do holds in memory
    kasPodUpdated, kcmPodUpdated,
    err,            \* the error Do returned
    steps,          \* history: the steps this call of Do has run, in order
    writes,         \* history: the calls of WriteObjectToYamlFile of this call of Do
    loaded,         \* history: the pods as this call of Do loaded them
    disk0,          \* history: the disk when this call of Do started
    rerun           \* history: this call of Do started on the files a successful call left

vars == <<runMode, disk, pc, runner, buildErr, kasPod, kcmPod, kasPodUpdated,
          kcmPodUpdated, err, steps, writes, loaded, disk0, rerun>>

NoRunner == [kasStaticPodPath |-> "", kcmStaticPodPath |-> ""]
NothingLoaded == [kas |-> NoObject, kcm |-> NoObject]

Init ==
    /\ runMode \in RunModes
    /\ disk \in IF runMode = PodMode THEN Disks ELSE SampleDisks
    /\ pc = "start"
    /\ runner = NoRunner
    /\ buildErr = NoError
    /\ kasPod = NoObject
    /\ kcmPod = NoObject
    /\ kasPodUpdated = FALSE
    /\ kcmPodUpdated = FALSE
    /\ err = NoError
    /\ steps = <<>>
    /\ writes = <<>>
    /\ loaded = NothingLoaded
    /\ disk0 = disk
    /\ rerun = FALSE

DoVars == <<kasPod, kcmPod, kasPodUpdated, kcmPodUpdated, err, steps, writes, loaded,
            disk0, rerun>>

(***************************************************************************)
(* NewControlPlaneRunner and newStaticPodRunner.                           *)
(***************************************************************************)
\* newStaticPodRunner, without the check of the kube-controller-manager file
newStaticPodRunner_OneCheck(d, podManifestsPath) ==
    LET kasStaticPodPath == Join(podManifestsPath, KASFileName)
        kcmStaticPodPath == Join(podManifestsPath, KCMFileName)
    IN  IF ~FileExists(d, kasStaticPodPath)
        THEN [runner |-> NoRunner, error |-> NotExistError(kasStaticPodPath)]
        ELSE [runner |-> [kasStaticPodPath |-> kasStaticPodPath,
                          kcmStaticPodPath |-> kcmStaticPodPath],
              error |-> NoError]

\* the (Runner, error) newStaticPodRunner returns
newStaticPodRunner(d, podManifestsPath) ==
    LET kasStaticPodPath == Join(podManifestsPath, KASFileName)
        kcmStaticPodPath == Join(podManifestsPath, KCMFileName)
    IN  IF ~FileExists(d, kasStaticPodPath)
        THEN [runner |-> NoRunner, error |-> NotExistError(kasStaticPodPath)]
        ELSE IF ~FileExists(d, kcmStaticPodPath)
        THEN [runner |-> NoRunner, error |-> NotExistError(kcmStaticPodPath)]
        ELSE [runner |-> [kasStaticPodPath |-> kasStaticPodPath,
                          kcmStaticPodPath |-> kcmStaticPodPath],
              error |-> NoError]

NewControlPlaneRunner ==
    /\ pc = "start"
    /\ LET r == IF runMode = PodMode
                THEN newStaticPodRunner(disk, PodManifestsPath)
                ELSE [runner |-> NoRunner, error |-> UnsupportedModeError(runMode)]
       IN  /\ runner' = r.runner
           /\ buildErr' = r.error
           /\ pc' = IF r.error = NoError THEN "built" ELSE "failed"
    /\ UNCHANGED <<runMode, disk, DoVars>>

(***************************************************************************)
(* staticPodRunner.Do, one action per step.                                *)
(***************************************************************************)
\* a call of Do begins: the locals are fresh
Do_Begin ==
    /\ pc \in {"built", "done"}
    /\ pc' = "readKas"
    /\ kasPod' = NoObject
    /\ kcmPod' = NoObject
    /\ kasPodUpdated' = FALSE
    /\ kcmPodUpdated' = FALSE
    /\ err' = NoError
    /\ steps' = <<>>
    /\ writes' = <<>>
    /\ loaded' = NothingLoaded
    /\ disk0' = disk
    /\ rerun' = (pc = "done" /\ err = NoError)
    /\ UNCHANGED <<runMode, disk, runner, buildErr>>

\* read kube-apiserver static pod
Do_ReadKas ==
    /\ pc = "readKas"
    /\ steps' = Append(steps, "loadKas")
    /\ LET path == runner.kasStaticPodPath
           kasObj == ReadObjectFromYamlFile(disk, path)
       IN  IF ReadFails(disk, path)
           THEN /\ err' = ReadError(path)
                /\ pc' = "done"
                /\ UNCHANGED <<kasPod, loaded>>
           ELSE IF ~IsPod(kasObj)
           THEN /\ err' = NotStaticPodError(path)
                /\ pc' = "done"
                /\ UNCHANGED <<kasPod, loaded>>
           ELSE /\ kasPod' = kasObj
                /\ loaded' = [loaded EXCEPT !.kas = kasObj]
                /\ pc' = "removeFlag"
                /\ UNCHANGED err
    /\ UNCHANGED <<runMode, disk, runner, buildErr, kcmPod, kasPodUpdated, kcmPodUpdated,
                   writes, disk0, rerun>>

\* remove --kubelet-preferred-address-types parameter
Do_RemoveFlag ==
    /\ pc = "removeFlag"
    /\ steps' = Append(steps, "removeFlag")
    /\ LET r == RemoveAddrTypesInAll(kasPod.Spec.Containers)
       IN  /\ kasPod' = [kasPod EXCEPT !.Spec.Containers = r.Containers]
           /\ kasPodUpdated' = (kasPodUpdated \/ r.updated)
    /\ pc' = "setDNS"
    /\ UNCHANGED <<runMode, disk, runner, buildErr, kcmPod, kcmPodUpdated, err, writes,
                   loaded, disk0, rerun>>

\* set dnsPolicy to ClusterFirstWithHostNet
Do_SetDNSPolicy ==
    /\ pc = "setDNS"
    /\ steps' = Append(steps, "setDNS")
    /\ LET r == SetDNSPolicy(kasPod.Spec.DNSPolicy)
       IN  /\ kasPod' = [kasPod EXCEPT !.Spec.DNSPolicy = r.DNSPolicy]
           /\ kasPodUpdated' = (kasPodUpdated \/ r.updated)
    /\ pc' = "readKcm"
    /\ UNCHANGED <<runMode, disk, runner, buildErr, kcmPod, kcmPodUpdated, err, writes,
                   loaded, disk0, rerun>>

\* read kube-controller-manager static pod
Do_ReadKcm ==
    /\ pc = "readKcm"
    /\ steps' = Append(steps, "loadKcm")
    /\ LET path == runner.kcmStaticPodPath
           kcmObj == ReadObjectFromYamlFile(disk, path)
       IN  IF ReadFails(disk, path)
           THEN /\ err' = ReadError(path)
                /\ pc' = "done"
                /\ UNCHANGED <<kcmPod, loaded>>
           ELSE IF ~IsPod(kcmObj)
           THEN /\ err' = NotStaticPodError(path)
                /\ pc' = "done"
                /\ UNCHANGED <<kcmPod, loaded>>
           ELSE /\ kcmPod' = kcmObj
                /\ loaded' = [loaded EXCEPT !.kcm = kcmObj]
                /\ pc' = "disableNodeLifeCycle"
                /\ UNCHANGED err
    /\ UNCHANGED <<runMode, disk, runner, buildErr, kasPod, kasPodUpdated, kcmPodUpdated,
                   writes, disk0, rerun>>

\* disable NodeLifeCycle controller
Do_DisableNodeLifeCycle ==
    /\ pc = "disableNodeLifeCycle"
    /\ steps' = Append(steps, "disableNodeLifeCycle")
    /\ LET r == DisableNodeLifeCycleInAll(kcmPod.Spec.Containers)
       IN  /\ kcmPod' = [kcmPod EXCEPT !.Spec.Containers = r.Containers]
           /\ kcmPodUpdated' = (kcmPodUpdated \/ r.updated)
    /\ pc' = "writeKas"
    /\ UNCHANGED <<runMode, disk, runner, buildErr, kasPod, kasPodUpdated, err, writes,
                   loaded, disk0, rerun>>

\* update static pod files: kube-apiserver
Do_WriteKas ==
    /\ pc = "writeKas"
    /\ IF kasPodUpdated
       THEN LET path == runner.kasStaticPodPath
            IN  /\ steps' = Append(steps, "writeKas")
                /\ \/ /\ disk' = [disk EXCEPT ![path] = WrittenFile(kasPod)]
                      /\ writes' = Append(writes, [path |-> path, ok |-> TRUE])
                      /\ pc' = AfterWriteKas(FALSE)
                      /\ UNCHANGED err
                   \/ /\ \E f \in FailedWriteOutcomes(disk[path]) :
                            disk' = [disk EXCEPT ![path] = f]
                      /\ writes' = Append(writes, [path |-> path, ok |-> FALSE])
                      /\ err' = WriteError(path)
                      /\ pc' = AfterWriteKas(TRUE)
       ELSE /\ pc' = "writeKcm"
            /\ UNCHANGED <<disk, err, steps, writes>>
    /\ UNCHANGED <<runMode, runner, buildErr, kasPod, kcmPod, kasPodUpdated, kcmPodUpdated,
                   loaded, disk0, rerun>>

\* update static pod files: kube-controller-manager, and return nil
Do_WriteKcm ==
    /\ pc = "writeKcm"
    /\ IF kcmPodUpdated
       THEN LET path == runner.kcmStaticPodPath
            IN  /\ steps' = Append(steps, "writeKcm")
                /\ \/ /\ disk' = [disk EXCEPT ![path] = WrittenFile(kcmPod)]
                      /\ writes' = Append(writes, [path |-> path, ok |-> TRUE])
                      /\ UNCHANGED err
                   \/ /\ \E f \in FailedWriteOutcomes(disk[path]) :
                            disk' = [disk EXCEPT ![path] = f]
                      /\ writes' = Append(writes, [path |-> path, ok |-> FALSE])
                      /\ err' = WriteError(path)
       ELSE UNCHANGED <<disk, err, steps, writes>>
    /\ pc' = "done"
    /\ UNCHANGED <<runMode, runner, buildErr, kasPod, kcmPod, kasPodUpdated, kcmPodUpdated,
                   loaded, disk0, rerun>>

Next ==
    \/ NewControlPlaneRunner
    \/ Do_Begin
    \/ Do_ReadKas
    \/ Do_RemoveFlag
    \/ Do_SetDNSPolicy
    \/ Do_ReadKcm
    \/ Do_DisableNodeLifeCycle
    \/ Do_WriteKas
    \/ Do_WriteKcm

Spec == Init /\ [][Next]_vars

(***************************************************************************)
(* Vocabulary of the properties.                                           *)
(***************************************************************************)
Succeeded == pc = "done" /\ err = NoError
Wrote(path) == \E w \in 1..Len(writes) : writes[w].path = path
WriteFailed(path) == \E w \in 1..Len(writes) : writes[w].path = path /\ ~writes[w].ok
HasArg(cmd, substr) == \E j \in 1..Len(cmd) : Contains(cmd[j], substr)
KasBefore == loaded.kas.Spec.Containers
KasAfter == kasPod.Spec.Containers
KcmBefore == loaded.kcm.Spec.Containers
KcmAfter == kcmPod.Spec.Containers

(***************************************************************************)
(* C1: Do is idempotent: a call of Do that starts on the files a           *)
(* successful call left, and succeeds, sets neither kasPodUpdated nor      *)
(* kcmPodUpdated, writes nothing and leaves both files as they were.       *)
(* Stated as claimed; a container holding two arguments that match breaks  *)
(* it.                                                                     *)
(***************************************************************************)
C1_Idempotent ==
    (Succeeded /\ rerun) =>
        /\ ~kasPodUpdated
        /\ ~kcmPodUpdated
        /\ writes = <<>>
        /\ disk = disk0

(***************************************************************************)
(* C2, as claimed: when both flags are set and the write of the            *)
(* kube-apiserver manifest fails, Do still attempts the write of the       *)
(* kube-controller-manager manifest.                                       *)
(***************************************************************************)
C2_WriteIndependence ==
    (pc = "done" /\ kasPodUpdated /\ kcmPodUpdated /\ WriteFailed(KASPath)) => Wrote(KCMPath)

(***************************************************************************)
(* C2, amended: when the write of the kube-apiserver manifest fails, Do    *)
(* returns that error at once: the kube-controller-manager manifest is not *)
(* written, whatever kcmPodUpdated says, and its file stays as it was.     *)
(***************************************************************************)
C2_WriteFailureAborts ==
    WriteFailed(KASPath) =>
        /\ pc = "done"
        /\ err = WriteError(KASPath)
        /\ ~Wrote(KCMPath)
        /\ disk[KCMPath] = disk0[KCMPath]

C2_Witness ==
    pc = "done" /\ kasPodUpdated /\ kcmPodUpdated /\ WriteFailed(KASPath)

(***************************************************************************)
(* C3: after a successful Do, no argument of a kube-apiserver container    *)
(* whose command held an argument containing                               *)
(* kubelet-preferred-address-types= contains that substring any more, and  *)
(* kasPodUpdated is set.  Stated as claimed; a command holding the flag    *)
(* twice breaks it.                                                        *)
(***************************************************************************)
C3_NoAddrTypesLeft ==
    Succeeded =>
        \A i \in DOMAIN KasBefore :
            HasArg(KasBefore[i].Command, KubeletAddrTypes) =>
                /\ ~HasArg(KasAfter[i].Command, KubeletAddrTypes)
                /\ kasPodUpdated

(***************************************************************************)
(* The --controllers= argument, read character by character.               *)
(***************************************************************************)
\* position of the first = of arg
FirstEq(arg) ==
    CHOOSE k \in 1..Len(arg) :
        /\ SubSeq(arg, k, k) = "="
        /\ \A m \in 1..(k - 1) : SubSeq(arg, m, m) # "="
\* arg with -nodelifecycle, put right after its first =
WithTokenAfterFirstEq(arg) ==
    SubSeq(arg, 1, FirstEq(arg)) \o "-nodelifecycle," \o SubSeq(arg, FirstEq(arg) + 1, Len(arg))
\* the text right after the first = of arg is -nodelifecycle,
TokenRightAfterEq(arg) ==
    /\ FirstEq(arg) + Len("-nodelifecycle,") <= Len(arg)
    /\ SubSeq(arg, FirstEq(arg) + 1, FirstEq(arg) + Len("-nodelifecycle,")) = "-nodelifecycle,"
\* arg names the controllers and holds -nodelifecycle, nowhere
LacksToken(arg) == Contains(arg, "--controllers=") /\ ~Contains(arg, "-nodelifecycle,")
NamesControllers(arg) == Contains(arg, "--controllers=")
NoTokenAfterEq(arg) == NamesControllers(arg) /\ ~TokenRightAfterEq(arg)
HoldsToken(arg) == Contains(arg, "-nodelifecycle,")
\* j is the first argument of cmd that ...
FirstLacksToken(cmd, j) == LacksToken(cmd[j]) /\ \A m \in 1..(j - 1) : ~LacksToken(cmd[m])
FirstNoTokenAfterEq(cmd, j) ==
    NoTokenAfterEq(cmd[j]) /\ \A m \in 1..(j - 1) : ~NoTokenAfterEq(cmd[m])
FirstNamesControllers(cmd, j) ==
    NamesControllers(cmd[j]) /\ \A m \in 1..(j - 1) : ~NamesControllers(cmd[m])

(***************************************************************************)
(* C4, as claimed: in every kube-controller-manager container, the first   *)
(* argument that contains --controllers= without -nodelifecycle, right     *)
(* after the = is replaced by its text with -nodelifecycle, inserted after *)
(* its first =, kcmPodUpdated is set, and no other argument of the         *)
(* container changes.                                                      *)
(***************************************************************************)
C4_InsertUnlessTokenAfterEq ==
    Succeeded =>
        \A i \in DOMAIN KcmBefore :
            LET cmd == KcmBefore[i].Command
                new == KcmAfter[i].Command
            IN  \A j \in 1..Len(cmd) :
                    FirstNoTokenAfterEq(cmd, j) =>
                        /\ new[j] = WithTokenAfterFirstEq(cmd[j])
                        /\ kcmPodUpdated
                        /\ \A m \in 1..Len(cmd) : m # j => new[m] = cmd[m]

(***************************************************************************)
(* C4, amended: in every kube-controller-manager container, the first      *)
(* argument that contains --controllers= and contains -nodelifecycle,      *)
(* nowhere is replaced by its text with -nodelifecycle, inserted after its *)
(* first =, kcmPodUpdated is set, and no other argument of the container   *)
(* changes; --controllers=*,bootstrapsigner,tokencleaner becomes           *)
(* --controllers=-nodelifecycle,*,bootstrapsigner,tokencleaner.            *)
(***************************************************************************)
C4_InsertUnlessTokenAnywhere ==
    Succeeded =>
        \A i \in DOMAIN KcmBefore :
            LET cmd == KcmBefore[i].Command
                new == KcmAfter[i].Command
            IN  \A j \in 1..Len(cmd) :
                    FirstLacksToken(cmd, j) =>
                        /\ new[j] = WithTokenAfterFirstEq(cmd[j])
                        /\ cmd[j] = "--controllers=*,bootstrapsigner,tokencleaner"
                              => new[j] = "--controllers=-nodelifecycle,*,bootstrapsigner,tokencleaner"
                        /\ kcmPodUpdated
                        /\ \A m \in 1..Len(cmd) : m # j => new[m] = cmd[m]

C4_Witness ==
    /\ Succeeded
    /\ \E i \in DOMAIN KcmBefore :
          /\ Len(KcmBefore[i].Command) = 2
          /\ LacksToken(KcmBefore[i].Command[2])
          /\ KcmAfter[i].Command[2] # KcmBefore[i].Command[2]

C6_WrittenIffFlag ==
    pc = "done" =>
        /\ Wrote(KASPath) <=> kasPodUpdated
        /\ Wrote(KCMPath) <=> kcmPodUpdated
        /\ kasPodUpdated <=> (kasPod # loaded.kas)
        /\ kcmPodUpdated <=> (kcmPod # loaded.kcm)
        /\ \A p \in Paths : ~Wrote(p) => disk[p] = disk0[p]

(***************************************************************************)
(* C6, amended: a manifest is written only if its flag is set, and in      *)
(* every call of Do that returns no error if and only if its flag is set;  *)
(* the flag is set if and only if the pod in memory was altered; a file    *)
(* that is not written stays untouched.                                    *)
(***************************************************************************)
C6_WrittenOnlyIfFlag ==
    /\ Wrote(KASPath) => kasPodUpdated
    /\ Wrote(KCMPath) => kcmPodUpdated
    /\ Succeeded => /\ Wrote(KASPath) <=> kasPodUpdated
                    /\ Wrote(KCMPath) <=> kcmPodUpdated
    /\ kasPodUpdated <=> (kasPod # loaded.kas)
    /\ kcmPodUpdated <=> (kcmPod # loaded.kcm)
    /\ \A p \in Paths : ~Wrote(p) => disk[p] = disk0[p]

C6_Witness ==
    /\ Succeeded
    /\ ~kasPodUpdated /\ ~Wrote(KASPath)
    /\ kcmPodUpdated /\ Wrote(KCMPath)
    /\ disk[KASPath] = disk0[KASPath]
    /\ disk[KCMPath] # disk0[KCMPath]

(***************************************************************************)
(* C7: the steps of one call of Do run in the order load kube-apiserver,   *)
(* remove the flag, set dnsPolicy, load kube-controller-manager, disable   *)
(* the controller, write kube-apiserver, write kube-controller-manager,    *)
(* none twice and none of the first five skipped; a manifest that fails to *)
(* load or is no Pod ends the call with an error, no later step runs and   *)
(* no file is written, also when the kube-apiserver pod was already        *)
(* changed in memory.                                                      *)
(***************************************************************************)
StepOrder ==
    <<"loadKas", "removeFlag", "setDNS", "loadKcm", "disableNodeLifeCycle",
      "writeKas", "writeKcm">>
Pos(step) == CHOOSE k \in 1..Len(StepOrder) : StepOrder[k] = step
IsWrite(step) == step \in {"writeKas", "writeKcm"}
NotAPod(file) == file.state # "yaml" \/ file.kind # "Pod"

C7_StepOrderAndAbort ==
    /\ \A a \in DOMAIN steps : steps[a] \in {StepOrder[k] : k \in 1..Len(StepOrder)}
    /\ \A a, b \in DOMAIN steps : a < b => Pos(steps[a]) < Pos(steps[b])
    /\ \A a \in DOMAIN steps : ~IsWrite(steps[a]) => Pos(steps[a]) = a
    /\ \A a \in DOMAIN steps :
          IsWrite(steps[a]) => \A k \in 1..Len(StepOrder) : ~IsWrite(StepOrder[k]) => k < a
    /\ (steps # <<>> /\ NotAPod(disk0[KASPath])) =>
          /\ pc = "done"
          /\ err # NoError
          /\ steps = <<"loadKas">>
          /\ disk0[KASPath].state = "yaml" => err = NotStaticPodError(KASPath)
          /\ kcmPod = NoObject
          /\ writes = <<>>
          /\ disk = disk0
    /\ ("loadKcm" \in {steps[a] : a \in DOMAIN steps} /\ NotAPod(disk0[KCMPath])) =>
          /\ pc = "done"
          /\ err # NoError
          /\ steps = <<"loadKas", "removeFlag", "setDNS", "loadKcm">>
          /\ disk0[KCMPath].state = "yaml" => err = NotStaticPodError(KCMPath)
          /\ writes = <<>>
          /\ disk = disk0

C7_Witness ==
    /\ pc = "done"
    /\ NotAPod(disk0[KCMPath])
    /\ kasPodUpdated
    /\ kasPod # loaded.kas
    /\ steps = <<"loadKas", "removeFlag", "setDNS", "loadKcm">>

(***************************************************************************)
(* C8: after every successful Do the kube-apiserver pod's dnsPolicy is     *)
(* ClusterFirstWithHostNet, in memory and on disk; once the dnsPolicy step *)
(* has run, kasPodUpdated is set when the policy was another one, and when *)
(* it was ClusterFirstWithHostNet already the step leaves the field alone  *)
(* and kasPodUpdated is set only if a command was changed.                 *)
(***************************************************************************)
DNSStepRan == "setDNS" \in {steps[a] : a \in DOMAIN steps}

C8_DNSPolicy ==
    /\ Succeeded =>
          /\ kasPod.Spec.DNSPolicy = "ClusterFirstWithHostNet"
          /\ disk[KASPath].Spec.DNSPolicy = "ClusterFirstWithHostNet"
    /\ DNSStepRan =>
          /\ kasPod.Spec.DNSPolicy = "ClusterFirstWithHostNet"
          /\ loaded.kas.Spec.DNSPolicy # "ClusterFirstWithHostNet" => kasPodUpdated
          /\ loaded.kas.Spec.DNSPolicy = "ClusterFirstWithHostNet"
                => (kasPodUpdated <=> KasAfter # KasBefore)

C8_Witness ==
    /\ Succeeded
    /\ loaded.kas.Spec.DNSPolicy = "Default"
    /\ KasAfter = KasBefore
    /\ kasPodUpdated
    /\ disk0[KASPath].Spec.DNSPolicy = "Default"
    /\ disk[KASPath].Spec.DNSPolicy = "ClusterFirstWithHostNet"

(***************************************************************************)
(* C9: NewControlPlaneRunner returns a runner if and only if the mode is   *)
(* "pod" and both manifests exist; another mode fails with an error that   *)
(* names the mode, a missing file with an error that names its path, the   *)
(* kube-apiserver path first; when it fails nothing is loaded, changed or  *)
(* written.                                                                *)
(***************************************************************************)
Exists(path) == disk[path].state # "absent"

C9_Factory ==
    pc # "start" =>
        /\ (runner # NoRunner) <=> (runMode = "pod" /\ Exists(KASPath) /\ Exists(KCMPath))
        /\ (runner # NoRunner) <=> (buildErr = NoError)
        /\ (runner # NoRunner) <=> (pc # "failed")
        /\ runner # NoRunner =>
              runner = [kasStaticPodPath |-> "/etc/kubernetes/manifests/kube-apiserver.yaml",
                        kcmStaticPodPath |-> "/etc/kubernetes/manifests/kube-controller-manager.yaml"]
        /\ runMode # "pod" =>
              /\ SubSeq(buildErr, 1, Len(runMode)) = runMode
              /\ Contains(buildErr, "mode is not supported")
        /\ (runMode = "pod" /\ ~Exists(KASPath)) =>
              /\ Contains(buildErr, "kube-apiserver.yaml")
              /\ ~Contains(buildErr, "kube-controller-manager.yaml")
        /\ (runMode = "pod" /\ Exists(KASPath) /\ ~Exists(KCMPath)) =>
              Contains(buildErr, "/etc/kubernetes/manifests/kube-controller-manager.yaml")
        /\ pc = "failed" =>
              /\ steps = <<>>
              /\ writes = <<>>
              /\ loaded = NothingLoaded
              /\ kasPod = NoObject /\ kcmPod = NoObject
              /\ ~kasPodUpdated /\ ~kcmPodUpdated
              /\ disk = disk0

C9_Witness ==
    /\ pc = "failed"
    /\ runMode = "pod"
    /\ Exists(KASPath)
    /\ ~Exists(KCMPath)
    /\ runner = NoRunner

(***************************************************************************)
(* C10: in each kube-apiserver container Do removes the first argument     *)
(* that contains kubelet-preferred-address-types= and nothing else: the    *)
(* other arguments keep their text and order, a command loses at most one  *)
(* argument, and the containers stay as many; in each                      *)
(* kube-controller-manager container Do changes the text of at most one    *)
(* argument and neither the number nor the order of the arguments.         *)
(***************************************************************************)
HoldsAddrTypes(arg) == Contains(arg, "kubelet-preferred-address-types=")
RemoveStepRan == "removeFlag" \in {steps[a] : a \in DOMAIN steps}
DisableStepRan == "disableNodeLifeCycle" \in {steps[a] : a \in DOMAIN steps}

====
